---- MODULE Spec2Model ----
(***************************************************************************)
(* Commit-analysis pipeline of the Code Analysis Agent backend:            *)
(* the diff source adapter (github_service.py), the per-file analysis and  *)
(* response validation (analysis_service.py), and the history endpoints    *)
(* (main.py) over the history_records table (models.py).                   *)
(*                                                                         *)
(* Strings are modelled as sequences of tokens, so that formatting,        *)
(* concatenation, strip() and "contains" are computed, not assumed.        *)
(***************************************************************************)
EXTENDS Integers, Sequences, FiniteSets, Bags, TLC

(***************************************************************************)
(* Bounds of the model.                                                    *)
(***************************************************************************)
\* analyze/reanalyze requests admitted while records stored + requests in
\* flight stay below this number: the table never holds more records
MaxRecords == 2
\* analyze/reanalyze requests suspended at the same time
MaxInflight == 2

\* the aids a client may ask for: some stored, at least one never stored
Ids == 1..(MaxRecords + 1)

(***************************************************************************)
(* JSON values as json.loads returns them (tagged by Python type).         *)
(***************************************************************************)
JBool(b) == [t |-> "bool", b |-> b]
JStr(s) == [t |-> "str", s |-> s]
JList(xs) == [t |-> "list", items |-> xs]
JDict(f) == [t |-> "dict", d |-> f]
JNum(n) == [t |-> "num", n |-> n]

\* str.strip(): remove leading and trailing whitespace tokens
IsSpace(tok) == tok \in {" ", "\n"}

RECURSIVE LStrip(_)
LStrip(s) == IF s # <<>> /\ IsSpace(Head(s)) THEN LStrip(Tail(s)) ELSE s

RECURSIVE RStrip(_)
RStrip(s) ==
    IF s # <<>> /\ IsSpace(s[Len(s)]) THEN RStrip(SubSeq(s, 1, Len(s) - 1)) ELSE s

Strip(s) == RStrip(LStrip(s))

\* str(type(data)) as it appears in the validator's messages
TypeName(v) == "<class '" \o v.t \o "'>"

(***************************************************************************)
(* required_fields: the schema, a dict whose keys are walked in insertion  *)
(* order; a leaf is a Python type.                                         *)
(***************************************************************************)
SType(ty) == [t |-> "type", ty |-> ty, keys |-> <<>>, sub |-> <<>>]
SDict(keys, sub) == [t |-> "dict", ty |-> "dict", keys |-> keys, sub |-> sub]

required_fields ==
    SDict(<<"compatibility_testing_required", "compatibility_analysis",
            "compatibility_reasons", "security_implications", "ui_impact",
            "testing_recommendations">>,
          ("compatibility_testing_required" :> SType("bool")) @@
          ("compatibility_analysis" :>
              SDict(<<"reasoning", "affected_versions">>,
                    ("reasoning" :> SType("str")) @@
                    ("affected_versions" :>
                        SDict(<<"min_version", "target_versions", "specific_apis">>,
                              ("min_version" :> SType("str")) @@
                              ("target_versions" :> SType("list")) @@
                              ("specific_apis" :> SType("list")))))) @@
          ("compatibility_reasons" :> SType("list")) @@
          ("security_implications" :> SType("list")) @@
          ("ui_impact" :>
              SDict(<<"has_visual_changes", "reasoning", "changes">>,
                    ("has_visual_changes" :> SType("bool")) @@
                    ("reasoning" :> SType("str")) @@
                    ("changes" :> SType("list")))) @@
          ("testing_recommendations" :> SType("list")))

\* f"{path + '.' if path else ''}{key}"
SubPath(path, key) == IF path = <<>> THEN <<key>> ELSE path \o <<".", key>>

(***************************************************************************)
(* validate_field(data, schema, path): <<>> when the walk raises nothing,  *)
(* otherwise the text of the ValueError raised first.                      *)
(***************************************************************************)
RECURSIVE validate_field(_, _, _)
RECURSIVE validate_keys(_, _, _, _)

validate_keys(data, schema, path, i) ==
    IF i > Len(schema.keys) THEN <<>>
    ELSE LET key == schema.keys[i] IN
         IF key \notin DOMAIN data.d
         THEN <<"Missing required field: ">> \o SubPath(path, key)
         ELSE LET e == validate_field(data.d[key], schema.sub[key], SubPath(path, key)) IN
              IF e # <<>> THEN e ELSE validate_keys(data, schema, path, i + 1)

\* validate_field without the check of empty strings
validate_field_no_strip(data, schema, path) ==
    IF schema.t = "dict"
    THEN IF data.t # "dict"
         THEN <<"Expected dict at ">> \o path \o <<", got ", TypeName(data)>>
         ELSE validate_keys(data, schema, path, 1)
    ELSE IF data.t # schema.ty
         THEN <<"Invalid type for ">> \o path \o
              <<": expected ", "<class '" \o schema.ty \o "'>", ", got ", TypeName(data)>>
         ELSE <<>>

validate_field(data, schema, path) ==
    IF schema.t = "dict"
    THEN IF data.t # "dict"
         THEN <<"Expected dict at ">> \o path \o <<", got ", TypeName(data)>>
         ELSE validate_keys(data, schema, path, 1)
    ELSE IF data.t # schema.ty
         THEN <<"Invalid type for ">> \o path \o
              <<": expected ", "<class '" \o schema.ty \o "'>", ", got ", TypeName(data)>>
         ELSE IF schema.ty = "str" /\ Strip(data.s) = <<>>
              THEN <<"Empty string not allowed for ">> \o path
              ELSE <<>>

(***************************************************************************)
(* The reasoning engine's reply.  analysis_result.content is either a str  *)
(* (isStr) or some other object; segs is the text (for a non-str content:  *)
(* the text str() gives) cut into segments: prose without braces, or the   *)
(* JSON text of a value v.                                                 *)
(***************************************************************************)
Prose == [k |-> "prose", v |-> JNum(0)]
JsonText(v) == [k |-> "json", v |-> v]
Raw(isStr, segs) == [isStr |-> isStr, segs |-> segs]

\* the segment's text starts with "{" and ends with "}": the JSON text of an
\* object (the model's other JSON texts and its prose hold no braces)
HasBrace(seg) == seg.k = "json" /\ seg.v.t = "dict"

\* json.loads(text): the value, or the text of the JSONDecodeError
json_loads(segs) ==
    IF segs = <<>> \/ Head(segs).k # "json"
    THEN [ok |-> FALSE, v |-> JNum(0), err |-> <<"Expecting value">>]
    ELSE IF Len(segs) > 1
         THEN [ok |-> FALSE, v |-> JNum(0), err |-> <<"Extra data">>]
         ELSE [ok |-> TRUE, v |-> segs[1].v, err |-> <<>>]

\* re.search(r'\{.*\}', text, re.DOTALL).group(0): greedy, from the first "{"
\* to the last "}" of the text; <<>> when there is no match
json_match(segs) ==
    LET braces == {i \in DOMAIN segs : HasBrace(segs[i])} IN
    IF braces = {} THEN <<>>
    ELSE LET first == CHOOSE i \in braces : \A j \in braces : i <= j
             last == CHOOSE i \in braces : \A j \in braces : j <= i
         IN SubSeq(segs, first, last)

(***************************************************************************)
(* "Try to parse as JSON" (analysis_service.py 176-191): the parsed data,  *)
(* or the text of the ValueError that leaves the block.                    *)
(***************************************************************************)
NoData == JNum(0)

parse_json(raw) ==
    IF raw.isStr
    THEN LET r == json_loads(raw.segs) IN
         IF r.ok THEN [ok |-> TRUE, data |-> r.v, err |-> <<>>]
         ELSE [ok |-> FALSE, data |-> NoData,
               err |-> <<"Failed to parse analysis result as JSON: ">> \o r.err]
    ELSE LET m == json_match(raw.segs) IN
         IF m = <<>>
         THEN [ok |-> FALSE, data |-> NoData,
               err |-> <<"Failed to parse analysis result as JSON">>]
         ELSE LET r == json_loads(m) IN
              IF r.ok THEN [ok |-> TRUE, data |-> r.v, err |-> <<>>]
              ELSE [ok |-> FALSE, data |-> NoData,
                    err |-> <<"Failed to parse analysis result as JSON: ">> \o r.err]

\* fallback_data with an empty min_version
fallback_data_blank(etext) ==
    JDict(("compatibility_testing_required" :> JBool(FALSE)) @@
          ("compatibility_analysis" :> JDict(
              ("reasoning" :> JStr(<<"Analysis failed: ">> \o etext \o
                  <<". Unable to determine compatibility requirements.">>)) @@
              ("affected_versions" :> JDict(
                  ("min_version" :> JStr(<<>>)) @@
                  ("target_versions" :> JList(<<>>)) @@
                  ("specific_apis" :> JList(<<>>)))))) @@
          ("compatibility_reasons" :> JList(<<>>)) @@
          ("security_implications" :> JList(<<>>)) @@
          ("ui_impact" :> JDict(
              ("has_visual_changes" :> JBool(FALSE)) @@
              ("reasoning" :> JStr(<<"Unable to analyze UI impact due to analysis failure.">>)) @@
              ("changes" :> JList(<<>>)))) @@
          ("testing_recommendations" :> JList(<<>>)) @@
          ("error" :> JStr(<<"Analysis failed: ">> \o etext)))

\* the fallback analysis_data built by `except Exception as e` (238-259)
fallback_data(etext) ==
    JDict(("compatibility_testing_required" :> JBool(FALSE)) @@
          ("compatibility_analysis" :> JDict(
              ("reasoning" :> JStr(<<"Analysis failed: ">> \o etext \o
                  <<". Unable to determine compatibility requirements.">>)) @@
              ("affected_versions" :> JDict(
                  ("min_version" :> JStr(<<"unknown">>)) @@
                  ("target_versions" :> JList(<<>>)) @@
                  ("specific_apis" :> JList(<<>>)))))) @@
          ("compatibility_reasons" :> JList(<<>>)) @@
          ("security_implications" :> JList(<<>>)) @@
          ("ui_impact" :> JDict(
              ("has_visual_changes" :> JBool(FALSE)) @@
              ("reasoning" :> JStr(<<"Unable to analyze UI impact due to analysis failure.">>)) @@
              ("changes" :> JList(<<>>)))) @@
          ("testing_recommendations" :> JList(<<>>)) @@
          ("error" :> JStr(<<"Analysis failed: ">> \o etext)))

\* validate_response without the schema walk
validate_response_unchecked(raw) ==
    LET p == parse_json(raw) IN
    IF ~p.ok THEN fallback_data(p.err) ELSE p.data

(***************************************************************************)
(* The validator step: everything between the engine's reply and           *)
(* results.append for one file (analysis_service.py 176-259).              *)
(***************************************************************************)
validate_response(raw) ==
    LET p == parse_json(raw) IN
    IF ~p.ok THEN fallback_data(p.err)
    ELSE LET e == validate_field(p.data, required_fields, <<>>) IN
         IF e # <<>> THEN fallback_data(<<"Invalid response structure: ">> \o e)
         ELSE p.data

\* one iteration of the per-file try block: the engine raised exc, or
\* replied raw
EngineRaised(etext) == [raised |-> TRUE, raw |-> Raw(TRUE, <<>>), exc |-> etext]
EngineReplied(raw) == [raised |-> FALSE, raw |-> raw, exc |-> <<>>]

analysis_data_of(outcome) ==
    IF outcome.raised THEN fallback_data(outcome.exc)
    ELSE validate_response(outcome.raw)

(***************************************************************************)
(* Diff source adapter (github_service.py).                                *)
(***************************************************************************)
Host == "https://github.com/"
HexTokens == {"abc1", "beef", "c0de", "0ff"}
IsHex(tok) == tok \in HexTokens
NotSlash(tok) == tok # "/" /\ tok # Host

\* the longest prefix of s matched by [^/]+ , resp. [a-f0-9]+
RECURSIVE NameRun(_)
NameRun(s) ==
    IF s # <<>> /\ NotSlash(Head(s)) THEN <<Head(s)>> \o NameRun(Tail(s)) ELSE <<>>

RECURSIVE HexRun(_)
HexRun(s) ==
    IF s # <<>> /\ IsHex(Head(s)) THEN <<Head(s)>> \o HexRun(Tail(s)) ELSE <<>>

Drop(s, n) == SubSeq(s, n + 1, Len(s))
StartsWith(s, p) == Len(s) >= Len(p) /\ SubSeq(s, 1, Len(p)) = p

NoMatch == [ok |-> FALSE, owner |-> <<>>, repo |-> <<>>, commit_hash |-> <<>>]

\* re.match(r"https://github\.com/([^/]+)/([^/]+)/commit/([a-f0-9]+)", url):
\* anchored at the start of url only
parse_commit_url(url) ==
    IF ~StartsWith(url, <<Host>>) THEN NoMatch
    ELSE LET r1 == Drop(url, 1)
             owner == NameRun(r1)
             r2 == Drop(r1, Len(owner))
         IN IF owner = <<>> \/ ~StartsWith(r2, <<"/">>) THEN NoMatch
            ELSE LET r3 == Drop(r2, 1)
                     repo == NameRun(r3)
                     r4 == Drop(r3, Len(repo))
                 IN IF repo = <<>> \/ ~StartsWith(r4, <<"/", "commit", "/">>) THEN NoMatch
                    ELSE LET hash == HexRun(Drop(r4, 3)) IN
                         IF hash = <<>> THEN NoMatch
                         ELSE [ok |-> TRUE, owner |-> owner, repo |-> repo,
                               commit_hash |-> hash]

\* file.patch: None, or a text
NoPatch == [none |-> TRUE, text |-> <<>>]
Patch(text) == [none |-> FALSE, text |-> text]
\* Python truthiness of file.patch / change.get("patch")
Truthy(patch) == ~patch.none /\ patch.text # <<>>

RECURSIVE SkipSpace(_)
SkipSpace(s) == IF s # <<>> /\ IsSpace(Head(s)) THEN SkipSpace(Tail(s)) ELSE s

\* re.search of a rule: the method token, \s*, "(", and for the last two
\* rules \s* and the constant's prefix
RuleMatches(rule, text) ==
    \E i \in DOMAIN text :
        /\ text[i] = rule.method
        /\ LET r == SkipSpace(Drop(text, i)) IN
           /\ StartsWith(r, <<"(">>)
           /\ rule.const # "" => StartsWith(SkipSpace(Drop(r, 1)), <<rule.const>>)

\* the rule table; api is pattern.split(r'\.')[-1].split(r'\(')[0]
android_api_patterns ==
    << [method |-> ".setPublicVersion", const |-> "",
        api |-> "setPublicVersion\\s*",
        description |-> "Android 15 - Screen sharing protection"],
       [method |-> ".setContentSensitivity", const |-> "",
        api |-> "setContentSensitivity\\s*",
        description |-> "Android 15 - Content sensitivity"],
       [method |-> ".setVisibility", const |-> "NotificationCompat.VISIBILITY_",
        api |-> "VISIBILITY_",
        description |-> "Notification visibility"],
       [method |-> ".setCategory", const |-> "NotificationCompat.CATEGORY_",
        api |-> "CATEGORY_",
        description |-> "Notification category"] >>

RECURSIVE DetectFrom(_, _)
DetectFrom(text, i) ==
    IF i > Len(android_api_patterns) THEN <<>>
    ELSE LET rule == android_api_patterns[i] IN
         (IF RuleMatches(rule, text)
          THEN <<[api |-> rule.api, description |-> rule.description]>>
          ELSE <<>>) \o DetectFrom(text, i + 1)

_detect_android_api_changes(patch) ==
    IF ~Truthy(patch) THEN <<>> ELSE DetectFrom(patch.text, 1)

\* filename tests of get_commit_changes
EndsWith(name, suffix) == name # <<>> /\ name[Len(name)] = suffix
Lower(tok) == IF tok = "/Android/" THEN "/android/" ELSE tok
is_android_file(name) ==
    /\ EndsWith(name, ".java")
    /\ \/ \E i \in DOMAIN name : Lower(name[i]) = "/android/"
       \/ \E i \in DOMAIN name : name[i] = "app/src/main"

file_type(name) ==
    IF EndsWith(name, ".java") THEN "java"
    ELSE IF EndsWith(name, ".kt") THEN "kotlin"
    ELSE IF EndsWith(name, ".xml") THEN "xml"
    ELSE "other"

\* change_of that runs the detector on every file
change_of_unguarded(file) ==
    [filename |-> file.filename, status |-> file.status,
     additions |-> file.additions, deletions |-> file.deletions,
     changes |-> file.changes, patch |-> file.patch,
     is_android_file |-> is_android_file(file.filename),
     file_type |-> file_type(file.filename),
     android_api_changes |-> _detect_android_api_changes(file.patch)]

\* the dict appended for one file of commit.files
change_of(file) ==
    [filename |-> file.filename, status |-> file.status,
     additions |-> file.additions, deletions |-> file.deletions,
     changes |-> file.changes, patch |-> file.patch,
     is_android_file |-> is_android_file(file.filename),
     file_type |-> file_type(file.filename),
     android_api_changes |->
         IF is_android_file(file.filename)
         THEN _detect_android_api_changes(file.patch) ELSE <<>>]

\* changes_of with `break` in place of `continue`
RECURSIVE changes_of_break(_)
changes_of_break(files) ==
    IF files = <<>> \/ ~Truthy(Head(files).patch) THEN <<>>
    ELSE <<change_of(Head(files))>> \o changes_of_break(Tail(files))

\* the loop over commit.files: files without a patch are skipped
RECURSIVE changes_of(_)
changes_of(files) ==
    IF files = <<>> THEN <<>>
    ELSE (IF ~Truthy(Head(files).patch) THEN <<>> ELSE <<change_of(Head(files))>>)
         \o changes_of(Tail(files))

(***************************************************************************)
(* The upstream repository host: one repository, three commits.  The       *)
(* files of a commit never change.                                         *)
(***************************************************************************)
FJava ==
    [filename |-> <<"app/src/main", "/", "Notifier", ".java">>, status |-> "modified",
     additions |-> 2, deletions |-> 1, changes |-> 3,
     patch |-> Patch(<<"builder", ".setPublicVersion", " ", "(", "pub", ")">>)]
FXml ==
    [filename |-> <<"res", "/", "layout", ".xml">>, status |-> "added",
     additions |-> 1, deletions |-> 0, changes |-> 1,
     patch |-> Patch(<<"layout_width">>)]
FPng ==
    [filename |-> <<"res", "/", "logo", ".png">>, status |-> "added",
     additions |-> 0, deletions |-> 0, changes |-> 0, patch |-> NoPatch]
FRenamed ==
    [filename |-> <<"docs", "/", "guide", ".md">>, status |-> "renamed",
     additions |-> 0, deletions |-> 0, changes |-> 0, patch |-> Patch(<<>>)]

KnownRepo == <<"octo", "/", "app">>
KnownCommits == {<<"abc1">>, <<"beef">>, <<"c0de">>}
commit_files(hash) ==
    IF hash = <<"abc1">> THEN <<FPng, FXml>>
    ELSE IF hash = <<"c0de">> THEN <<FJava, FRenamed, FPng, FXml>>
    ELSE <<FPng, FRenamed>>

\* what the upstream API does to one get_commit_changes call: nothing, or a
\* fault striking one of its two calls
UpstreamOutcomes ==
    { [fault |-> "none", at |-> "get_repo"],
      [fault |-> "rate_limit", at |-> "get_repo"],
      [fault |-> "github", at |-> "get_repo"],
      [fault |-> "github", at |-> "get_commit"],
      [fault |-> "other", at |-> "get_commit"] }

NoInfo == [repository |-> <<>>, commit |-> <<>>, files |-> <<>>]
Raised(cls, text, ext) == [cls |-> cls, text |-> text, info |-> NoInfo, ext |-> ext]
Returned(info, ext) == [cls |-> "", text |-> <<>>, info |-> info, ext |-> ext]

\* the except clauses of get_commit_changes (137-142)
github_error(kind, ext) ==
    IF kind = "rate_limit"
    THEN Raised("GitHubError",
                <<"GitHub API rate limit exceeded. Please try again later.">>, ext)
    ELSE IF kind = "github"
    THEN Raised("GitHubError", <<"GitHub API error: ", "GithubException">>, ext)
    ELSE Raised("GitHubError", <<"Error fetching commit changes: ", "Exception">>, ext)

\* get_commit_changes that asks the upstream for the repository before it
\* looks at the result of parse_commit_url
get_commit_changes_eager(url, up) ==
    LET parsed == parse_commit_url(url) IN
    IF up.fault # "none" /\ up.at = "get_repo"
    THEN github_error(up.fault, <<"get_repo">>)
    ELSE IF ~parsed.ok
    THEN Raised("GitHubError",
                <<"Error fetching commit changes: ", "Invalid GitHub commit URL format">>,
                <<"get_repo">>)
    ELSE IF parsed.owner \o <<"/">> \o parsed.repo # KnownRepo
    THEN github_error("github", <<"get_repo">>)
    ELSE IF up.fault # "none"
    THEN github_error(up.fault, <<"get_repo", "get_commit">>)
    ELSE IF parsed.commit_hash \notin KnownCommits
    THEN github_error("github", <<"get_repo", "get_commit">>)
    ELSE Returned([repository |-> parsed.owner \o <<"/">> \o parsed.repo,
                   commit |-> parsed.commit_hash,
                   files |-> changes_of(commit_files(parsed.commit_hash))],
                  <<"get_repo", "get_commit">>)

(***************************************************************************)
(* get_commit_changes(url): the repo_info returned or the GitHubError      *)
(* raised, with the upstream calls issued.  up is the upstream's outcome.  *)
(***************************************************************************)
get_commit_changes(url, up) ==
    LET parsed == parse_commit_url(url)
        fault == up.fault
        at == up.at
    IN
    IF ~parsed.ok
    THEN Raised("GitHubError",
                <<"Error fetching commit changes: ", "Invalid GitHub commit URL format">>,
                <<>>)
    ELSE LET repository == parsed.owner \o <<"/">> \o parsed.repo IN
         IF fault # "none" /\ at = "get_repo"
         THEN github_error(fault, <<"get_repo">>)
         ELSE IF repository # KnownRepo
         THEN github_error("github", <<"get_repo">>)
         ELSE IF fault # "none" /\ at = "get_commit"
         THEN github_error(fault, <<"get_repo", "get_commit">>)
         ELSE IF parsed.commit_hash \notin KnownCommits
         THEN github_error("github", <<"get_repo", "get_commit">>)
         ELSE Returned([repository |-> repository,
                        commit |-> parsed.commit_hash,
                        files |-> changes_of(commit_files(parsed.commit_hash))],
                       <<"get_repo", "get_commit">>)

(***************************************************************************)
(* The history_records table and the request handlers (main.py).           *)
(***************************************************************************)
VARIABLES
    db,         \* the rows of history_records
    now,        \* the clock read by datetime.utcnow() and func.now()
    inflight,   \* bag of the analyze/reanalyze requests suspended in ainvoke
    resp,       \* the response the last step sent, with the request it answers
    delta,      \* the rows the last step added to db and the rows it took away
    raw_text,   \* validator on its own: the engine reply handed to it
    validated,  \* validator on its own: the analysis_data it produced
    vpc,        \* validator on its own: "off", "input" or "validated"
    det_file,   \* detector on its own: the file of commit.files handed to it
    det_change, \* detector on its own: the changes the adapter built from it
    dpc         \* detector on its own: "off", "input" or "detected"

vars == <<db, now, inflight, resp, delta, raw_text, validated, vpc,
          det_file, det_change, dpc>>
handler_vars == <<db, now, inflight, resp, delta>>
validator_vars == <<raw_text, validated, vpc>>
detector_vars == <<det_file, det_change, dpc>>
pure_vars == <<validator_vars, detector_vars>>

None == [none |-> TRUE, text |-> <<>>]
Text(t) == [none |-> FALSE, text |-> t]

\* HistoryRecordDB(...) as stored by db.add / db.commit at time ts
HistoryRecordDB(aid, ts, repository, commit_hash, analysis_result, notes) ==
    [aid |-> aid, timestamp |-> ts, repository |-> repository,
     commit_hash |-> commit_hash, analysis_result |-> analysis_result,
     status |-> "completed", notes |-> notes, created_at |-> ts, updated_at |-> ts]

isoformat(ts) == [iso |-> ts]

NoReport == [repository |-> <<>>, commit |-> <<>>, files |-> <<>>]

\* to_dict that leaves the stored report out
to_dict_without_result(row) ==
    [aid |-> row.aid, timestamp |-> isoformat(row.timestamp),
     repository |-> row.repository, commit |-> row.commit_hash,
     analysisResult |-> NoReport, status |-> row.status,
     notes |-> row.notes, created_at |-> isoformat(row.created_at),
     updated_at |-> isoformat(row.updated_at)]

to_dict(row) ==
    [aid |-> row.aid, timestamp |-> isoformat(row.timestamp),
     repository |-> row.repository, commit |-> row.commit_hash,
     analysisResult |-> row.analysis_result, status |-> row.status,
     notes |-> row.notes, created_at |-> isoformat(row.created_at),
     updated_at |-> isoformat(row.updated_at)]

Aids == {r.aid : r \in db}
\* db.query(HistoryRecordDB).filter(HistoryRecordDB.aid == aid).first()
Row(aid) == CHOOSE r \in db : r.aid = aid

\* str(uuid.uuid4()): an id no row has
uuid4 == CHOOSE i \in 1..(Cardinality(db) + 1) : i \notin Aids

\* order_by(HistoryRecordDB.timestamp.desc()).all()
RECURSIVE by_timestamp_desc(_)
by_timestamp_desc(rows) ==
    IF rows = {} THEN <<>>
    ELSE LET r == CHOOSE x \in rows : \A y \in rows : y.timestamp <= x.timestamp
         IN <<r>> \o by_timestamp_desc(rows \ {r})

\* a request as its handler runs: for analyze/reanalyze the request suspended
\* in analysis_chain.ainvoke for changes.files[idx]; src is the
\* existing_record a re-analysis read; ext the external calls issued so far,
\* raised the number of engine invocations that raised
Call(op, url, aid) ==
    [op |-> op, url |-> url, aid |-> aid,
     src |-> [repository |-> <<>>, commit_hash |-> <<>>],
     changes |-> [repository |-> <<>>, commit |-> <<>>, files |-> <<>>],
     idx |-> 0, results |-> <<>>, ext |-> <<>>, raised |-> 0]

\* the response to request c: status 200 with a body, or the HTTPException
\* raised for the exception of class exc; with what the request had done
Response(c, status, detail, exc, report, body_aid, records) ==
    [op |-> c.op, url |-> c.url, aid |-> c.aid, status |-> status, detail |-> detail,
     exc |-> exc, report |-> report, body_aid |-> body_aid, records |-> records,
     ext |-> c.ext, done |-> Len(c.results), raised |-> c.raised]

\* the step sent no response
NoResponse == Response(Call("none", <<>>, 0), 0, <<>>, "", NoReport, 0, <<>>)

DeltaOf(before, after) == [added |-> after \ before, lost |-> before \ after]
NoDelta == DeltaOf({}, {})

\* the requests a client sends
Urls ==
    { <<Host, "octo", "/", "app", "/", "commit", "/", "abc1">>,
      <<Host, "octo", "/", "app", "/", "commit", "/", "c0de", "#diff">>,
      <<Host, "octo", "/", "app", "/", "commit", "/", "beef">>,
      <<Host, "octo", "/", "app", "/", "commit", "/", "0ff">>,
      <<Host, "octo", "/", "lib", "/", "commit", "/", "abc1">>,
      <<Host, "octo", "/", "app", "/", "pull", "/", "abc1">> }

\* a reply that passes the schema walk
ValidData ==
    JDict(("compatibility_testing_required" :> JBool(TRUE)) @@
          ("compatibility_analysis" :> JDict(
              ("reasoning" :> JStr(<<"Line 4: ", ".setPublicVersion(pub)">>)) @@
              ("affected_versions" :> JDict(
                  ("min_version" :> JStr(<<"Android 15">>)) @@
                  ("target_versions" :> JList(<<JStr(<<"Android 15">>)>>)) @@
                  ("specific_apis" :> JList(<<>>)))))) @@
          ("compatibility_reasons" :> JList(<<>>)) @@
          ("security_implications" :> JList(<<>>)) @@
          ("ui_impact" :> JDict(
              ("has_visual_changes" :> JBool(FALSE)) @@
              ("reasoning" :> JStr(<<"No layout change.">>)) @@
              ("changes" :> JList(<<>>)))) @@
          ("testing_recommendations" :> JList(<<>>)))

\* what one ainvoke round trip can end in
EngineOutcomes ==
    { EngineReplied(Raw(TRUE, <<JsonText(ValidData)>>)),
      EngineReplied(Raw(TRUE, <<Prose>>)),
      EngineRaised(<<"Connection error.">>) }

StoreOutcomes == {"ok", "error"}

\* an exception on its way out of a handler; status is an HTTPException's
Exc(cls, text) == [cls |-> cls, text |-> text, status |-> 0]
HTTPException(status, detail) == [cls |-> "HTTPException", text |-> detail, status |-> status]
\* str(e)
StrOf(e) ==
    IF e.cls = "HTTPException" THEN <<ToString(e.status) \o ": ">> \o e.text ELSE e.text

TimeoutDetail == <<"Analysis timed out. Please try again with a smaller commit.">>

\* the except clauses of get_history_record (85-87)
get_except(e) == HTTPException(500, <<"Database error: ">> \o StrOf(e))

\* reanalyze_except without the isinstance(e, HTTPException) re-raise
reanalyze_except_wraps(e) ==
    IF e.cls = "TimeoutError" THEN HTTPException(504, TimeoutDetail)
    ELSE HTTPException(500, StrOf(e))

\* the except clauses of reanalyze_history_record (130-140)
reanalyze_except(e) ==
    IF e.cls = "TimeoutError" THEN HTTPException(504, TimeoutDetail)
    ELSE IF e.cls = "HTTPException" THEN e
    ELSE HTTPException(500, StrOf(e))

\* analyze_except without the inner `except asyncio.TimeoutError`
analyze_except_no_timeout(e) ==
    IF e.cls \in {"ValueError", "GitHubError"} THEN HTTPException(400, StrOf(e))
    ELSE IF e.cls = "AnalysisError" THEN HTTPException(503, StrOf(e))
    ELSE IF e.cls = "HTTPException" THEN e
    ELSE HTTPException(500, <<"Internal server error: ">> \o StrOf(e))

\* analyze_except without the `except AnalysisError` clause
analyze_except_no_503(e) ==
    IF e.cls = "TimeoutError" THEN HTTPException(504, TimeoutDetail)
    ELSE IF e.cls \in {"ValueError", "GitHubError"} THEN HTTPException(400, StrOf(e))
    ELSE IF e.cls = "HTTPException" THEN e
    ELSE HTTPException(500, <<"Internal server error: ">> \o StrOf(e))

\* the except clauses of analyze_commit (188-204)
analyze_except(e) ==
    IF e.cls = "TimeoutError" THEN HTTPException(504, TimeoutDetail)
    ELSE IF e.cls \in {"ValueError", "GitHubError"} THEN HTTPException(400, StrOf(e))
    ELSE IF e.cls = "AnalysisError" THEN HTTPException(503, StrOf(e))
    ELSE IF e.cls = "HTTPException" THEN e
    ELSE HTTPException(500, <<"Internal server error: ">> \o StrOf(e))

handler_except(op, e) ==
    IF op = "analyze" THEN analyze_except(e) ELSE reanalyze_except(e)

\* the for loop's `continue` (147-150): the next file from i that is analysed
RECURSIVE next_patch(_, _)
next_patch(files, i) ==
    IF i > Len(files) \/ Truthy(files[i].patch) THEN i ELSE next_patch(files, i + 1)

\* results.append (262-266) for the file the engine was asked about
file_result(change, outcome) ==
    [filename |-> change.filename, analysis |-> analysis_data_of(outcome),
     changes |-> change]

\* the dict analyze_changes returns (268-272)
analysis_results_of(changes, results) ==
    [repository |-> changes.repository, commit |-> changes.commit, files |-> results]

\* new_record where a re-analysis keeps the aid of the record it re-analyses
new_record_same_aid(c, new_aid, analysis_results) ==
    IF c.op = "analyze"
    THEN HistoryRecordDB(new_aid, now, c.changes.repository, c.changes.commit,
                         analysis_results, None)
    ELSE HistoryRecordDB(c.aid, now, c.src.repository, c.src.commit_hash,
                         analysis_results, Text(<<"Re-analysis of ", ToString(c.aid)>>))

\* the row a handler builds after the batch (117-125, 170-177)
new_record(c, new_aid, analysis_results) ==
    IF c.op = "analyze"
    THEN HistoryRecordDB(new_aid, now, c.changes.repository, c.changes.commit,
                         analysis_results, None)
    ELSE HistoryRecordDB(new_aid, now, c.src.repository, c.src.commit_hash,
                         analysis_results, Text(<<"Re-analysis of ", ToString(c.aid)>>))

\* db_add that keeps one row per commit: a second analysis of a commit
\* adds nothing
db_add_dedup(rows, row) ==
    IF \E r \in rows : r.repository = row.repository /\ r.commit_hash = row.commit_hash
    THEN rows
    ELSE rows \cup {row}

\* db_add as an upsert: the row replaces the rows of the same commit
db_add_upsert(rows, row) ==
    {r \in rows : r.repository # row.repository \/ r.commit_hash # row.commit_hash}
        \cup {row}

\* db.add(record); db.commit()
db_add(rows, row) == rows \cup {row}

\* exception e leaves the handler's try block
Fail(c, e) ==
    LET h == handler_except(c.op, e) IN
    resp' = Response(c, h.status, h.text, e.cls, NoReport, 0, <<>>)

\* the handler after wait_for returned analysis_results: create the record,
\* commit, respond
Complete(c, store) ==
    LET analysis_results == analysis_results_of(c.changes, c.results)
        row == new_record(c, uuid4, analysis_results)
    IN IF store = "error"
       THEN Fail(c, Exc("OperationalError", <<"OperationalError">>))
            /\ delta' = NoDelta
            /\ UNCHANGED <<db, now>>
       ELSE /\ db' = db_add(db, row)
            /\ delta' = DeltaOf(db, db')
            /\ now' = now + 1
            /\ resp' = IF c.op = "analyze"
                       THEN Response(c, 200, <<>>, "", analysis_results, row.aid, <<>>)
                       ELSE Response(c, 200, <<>>, "", NoReport, 0, <<to_dict(row)>>)

\* Begin without the `if not changes.get("files")` check
Begin_unchecked(c, fetched) ==
    LET ext == c.ext \o fetched.ext IN
    IF fetched.cls # ""
    THEN Fail([c EXCEPT !.ext = ext], Exc(fetched.cls, fetched.text))
         /\ delta' = NoDelta
         /\ UNCHANGED <<db, now, inflight>>
    ELSE LET first == next_patch(fetched.info.files, 1)
             started == [c EXCEPT !.changes = fetched.info, !.idx = first] IN
         IF first > Len(fetched.info.files)
         THEN /\ \E store \in StoreOutcomes : Complete([started EXCEPT !.ext = ext], store)
              /\ UNCHANGED inflight
         ELSE /\ inflight' = inflight (+) SetToBag({[started EXCEPT !.ext = Append(ext, "ainvoke")]})
              /\ resp' = NoResponse
              /\ delta' = NoDelta
              /\ UNCHANGED <<db, now>>

\* the handler from get_commit_changes' return to the first ainvoke
Begin(c, fetched) ==
    LET ext == c.ext \o fetched.ext IN
    IF fetched.cls # ""
    THEN Fail([c EXCEPT !.ext = ext], Exc(fetched.cls, fetched.text))
         /\ delta' = NoDelta
         /\ UNCHANGED <<db, now, inflight>>
    ELSE IF fetched.info.files = <<>>
    THEN Fail([c EXCEPT !.ext = ext], HTTPException(400, <<"No files found in commit">>))
         /\ delta' = NoDelta
         /\ UNCHANGED <<db, now, inflight>>
    ELSE LET first == next_patch(fetched.info.files, 1)
             started == [c EXCEPT !.changes = fetched.info, !.idx = first] IN
         IF first > Len(fetched.info.files)
         THEN /\ \E store \in StoreOutcomes : Complete([started EXCEPT !.ext = ext], store)
              /\ UNCHANGED inflight
         ELSE /\ inflight' = inflight (+) SetToBag({[started EXCEPT !.ext = Append(ext, "ainvoke")]})
              /\ resp' = NoResponse
              /\ delta' = NoDelta
              /\ UNCHANGED <<db, now>>

Admit ==
    /\ Cardinality(db) + BagCardinality(inflight) < MaxRecords
    /\ BagCardinality(inflight) < MaxInflight

(***************************************************************************)
(* GET /api/history                                                        *)
(***************************************************************************)
list_history_records ==
    /\ UNCHANGED pure_vars
    /\ resp' = Response(Call("list", <<>>, 0), 200, <<>>, "", NoReport, 0,
                        [i \in DOMAIN by_timestamp_desc(db) |-> to_dict(by_timestamp_desc(db)[i])])
    /\ delta' = NoDelta
    /\ UNCHANGED <<db, now, inflight>>

(***************************************************************************)
(* GET /api/history/{aid}                                                  *)
(***************************************************************************)
get_history_record(aid) ==
    /\ UNCHANGED pure_vars
    /\ resp' = IF aid \notin Aids
               THEN LET h == get_except(HTTPException(404, <<"History record not found">>))
                    IN Response(Call("get", <<>>, aid), h.status, h.text, "HTTPException",
                                NoReport, 0, <<>>)
               ELSE Response(Call("get", <<>>, aid), 200, <<>>, "", NoReport, 0,
                             <<to_dict(Row(aid))>>)
    /\ delta' = NoDelta
    /\ UNCHANGED <<db, now, inflight>>

(***************************************************************************)
(* POST /api/analyze, up to its first suspension                           *)
(***************************************************************************)
analyze_commit(url, up) ==
    /\ UNCHANGED pure_vars
    /\ Admit
    /\ Begin(Call("analyze", url, 0),
             get_commit_changes(url, up))

(***************************************************************************)
(* POST /api/history/{aid}/reanalyze, up to its first suspension           *)
(***************************************************************************)
reanalyze_history_record(aid, up) ==
    /\ UNCHANGED pure_vars
    /\ Admit
    /\ LET c == Call("reanalyze", <<>>, aid) IN
       IF aid \notin Aids
       THEN Fail(c, HTTPException(404, <<"History record not found">>))
            /\ delta' = NoDelta
            /\ UNCHANGED <<db, now, inflight>>
       ELSE LET existing_record == Row(aid)
                url == <<Host>> \o existing_record.repository \o
                       <<"/", "commit", "/">> \o existing_record.commit_hash
            IN Begin([c EXCEPT !.src = [repository |-> existing_record.repository,
                                        commit_hash |-> existing_record.commit_hash]],
                     get_commit_changes(url, up))

\* InvokeReturns that invokes the engine again for a file whose invocation
\* raised
InvokeReturns_retry(c, outcome, store) ==
    /\ UNCHANGED pure_vars
    /\ c \in BagToSet(inflight)
    /\ LET files == c.changes.files
           resumed == [c EXCEPT !.results = Append(@, file_result(files[c.idx], outcome))]
           nxt == next_patch(files, c.idx + 1)
       IN IF outcome.raised
          THEN /\ inflight' = (inflight (-) SetToBag({c})) (+)
                      SetToBag({[c EXCEPT !.raised = 1, !.ext = Append(@, "ainvoke")]})
               /\ resp' = NoResponse
               /\ delta' = NoDelta
               /\ UNCHANGED <<db, now>>
          ELSE IF nxt <= Len(files)
          THEN /\ inflight' = (inflight (-) SetToBag({c})) (+)
                      SetToBag({[resumed EXCEPT !.idx = nxt, !.ext = Append(@, "ainvoke")]})
               /\ resp' = NoResponse
               /\ delta' = NoDelta
               /\ UNCHANGED <<db, now>>
          ELSE /\ inflight' = inflight (-) SetToBag({c})
               /\ Complete(resumed, store)

\* InvokeReturns without the per-file try: an engine exception leaves the
\* loop and analyze_changes raises AnalysisError
InvokeReturns_no_try(c, outcome, store) ==
    /\ UNCHANGED pure_vars
    /\ c \in BagToSet(inflight)
    /\ LET files == c.changes.files
           resumed == [c EXCEPT !.results = Append(@, file_result(files[c.idx], outcome)),
                                !.raised = IF outcome.raised THEN @ + 1 ELSE @]
           nxt == next_patch(files, c.idx + 1)
       IN IF outcome.raised
          THEN /\ inflight' = inflight (-) SetToBag({c})
               /\ Fail(c, Exc("AnalysisError", <<"Analysis process failed: ">> \o outcome.exc))
               /\ delta' = NoDelta
               /\ UNCHANGED <<db, now>>
          ELSE IF nxt <= Len(files)
          THEN /\ inflight' = (inflight (-) SetToBag({c})) (+)
                      SetToBag({[resumed EXCEPT !.idx = nxt, !.ext = Append(@, "ainvoke")]})
               /\ resp' = NoResponse
               /\ delta' = NoDelta
               /\ UNCHANGED <<db, now>>
          ELSE /\ inflight' = inflight (-) SetToBag({c})
               /\ Complete(resumed, store)

(***************************************************************************)
(* A suspended request resumes: the engine replied or raised for the file  *)
(* at idx; the loop goes on to the next file or the batch returns.         *)
(***************************************************************************)
InvokeReturns(c, outcome, store) ==
    /\ UNCHANGED pure_vars
    /\ c \in BagToSet(inflight)
    /\ LET files == c.changes.files
           resumed == [c EXCEPT !.results = Append(@, file_result(files[c.idx], outcome)),
                                !.raised = IF outcome.raised THEN @ + 1 ELSE @]
           nxt == next_patch(files, c.idx + 1)
       IN IF nxt <= Len(files)
          THEN /\ inflight' = (inflight (-) SetToBag({c})) (+)
                      SetToBag({[resumed EXCEPT !.idx = nxt, !.ext = Append(@, "ainvoke")]})
               /\ resp' = NoResponse
               /\ delta' = NoDelta
               /\ UNCHANGED <<db, now>>
          ELSE /\ inflight' = inflight (-) SetToBag({c})
               /\ Complete(resumed, store)

\* asyncio.wait_for gives up after 60 s: the batch is cancelled where it is
\* suspended and the handler sees asyncio.TimeoutError
BatchTimeout(c) ==
    /\ UNCHANGED pure_vars
    /\ c \in BagToSet(inflight)
    /\ inflight' = inflight (-) SetToBag({c})
    /\ Fail(c, Exc("TimeoutError", <<>>))
    /\ delta' = NoDelta
    /\ UNCHANGED <<db, now>>

\* an exception outside the per-file try leaves analyze_changes as
\* AnalysisError (274-276)
BatchFails(c) ==
    /\ UNCHANGED pure_vars
    /\ c \in BagToSet(inflight)
    /\ inflight' = inflight (-) SetToBag({c})
    /\ Fail(c, Exc("AnalysisError", <<"Analysis process failed: ", "MemoryError">>))
    /\ delta' = NoDelta
    /\ UNCHANGED <<db, now>>

Init ==
    /\ db = {}
    /\ now = 1
    /\ inflight = EmptyBag
    /\ resp = NoResponse
    /\ delta = NoDelta
    /\ raw_text = Raw(TRUE, <<>>)
    /\ validated = NoData
    /\ vpc = "off"
    /\ det_file = FPng
    /\ det_change = <<>>
    /\ dpc = "off"

Next ==
    \/ list_history_records
    \/ \E aid \in Ids : get_history_record(aid)
    \/ \E url \in Urls, up \in UpstreamOutcomes : analyze_commit(url, up)
    \/ \E aid \in Ids, up \in UpstreamOutcomes : reanalyze_history_record(aid, up)
    \/ \E c \in BagToSet(inflight), outcome \in EngineOutcomes, store \in StoreOutcomes :
           InvokeReturns(c, outcome, store)
    \/ \E c \in BagToSet(inflight) : BatchTimeout(c)
    \/ \E c \in BagToSet(inflight) : BatchFails(c)

Spec == Init /\ [][Next]_vars

(***************************************************************************)
(* The validator on its own: every engine reply of a bounded set is handed *)
(* to the validator step.                                                  *)
(***************************************************************************)
\* segments of a reply that is more than one JSON text
MaxSegs == 2

RequiredPaths ==
    { <<"compatibility_testing_required">>,
      <<"compatibility_analysis">>,
      <<"compatibility_analysis", "reasoning">>,
      <<"compatibility_analysis", "affected_versions">>,
      <<"compatibility_analysis", "affected_versions", "min_version">>,
      <<"compatibility_analysis", "affected_versions", "target_versions">>,
      <<"compatibility_analysis", "affected_versions", "specific_apis">>,
      <<"compatibility_reasons">>,
      <<"security_implications">>,
      <<"ui_impact">>,
      <<"ui_impact", "has_visual_changes">>,
      <<"ui_impact", "reasoning">>,
      <<"ui_impact", "changes">>,
      <<"testing_recommendations">> }

RECURSIVE HasPath(_, _)
HasPath(v, path) ==
    /\ v.t = "dict"
    /\ Head(path) \in DOMAIN v.d
    /\ Len(path) = 1 \/ HasPath(v.d[Head(path)], Tail(path))

RECURSIVE ValueAt(_, _)
ValueAt(v, path) == IF path = <<>> THEN v ELSE ValueAt(v.d[Head(path)], Tail(path))

RECURSIVE RemoveAt(_, _)
RemoveAt(v, path) ==
    IF Len(path) = 1
    THEN JDict([k \in DOMAIN v.d \ {Head(path)} |-> v.d[k]])
    ELSE JDict([v.d EXCEPT ![Head(path)] = RemoveAt(@, Tail(path))])

RECURSIVE ReplaceAt(_, _, _)
ReplaceAt(v, path, x) ==
    IF Len(path) = 1
    THEN JDict([v.d EXCEPT ![Head(path)] = x])
    ELSE JDict([v.d EXCEPT ![Head(path)] = ReplaceAt(@, Tail(path), x)])

\* parsed replies: schema-valid ones, ones with a key removed, ones with a
\* value of another type or an empty string, and values that are no object
DataSamples ==
    {ValidData,
     JDict(ValidData.d @@ ("error" :> JStr(<<"partial">>))),
     ReplaceAt(ValidData, <<"ui_impact", "has_visual_changes">>, JBool(TRUE)),
     ReplaceAt(ValidData, <<"security_implications">>, JList(<<JStr(<<"privacy">>)>>)),
     JBool(TRUE), JList(<<>>), JStr(<<"ok">>), JDict(<<>>)}
    \cup {RemoveAt(ValidData, p) : p \in RequiredPaths}
    \cup {ReplaceAt(ValidData, p, x) :
            p \in RequiredPaths, x \in {JNum(1), JStr(<<>>), JStr(<<" ", "\n">>)}}

SegmentSamples ==
    {Prose, JsonText(ValidData), JsonText(JBool(TRUE)),
     JsonText(RemoveAt(ValidData, <<"ui_impact", "reasoning">>))}

RECURSIVE SeqsUpTo(_, _)
SeqsUpTo(S, n) ==
    IF n = 0 THEN {<<>>}
    ELSE LET shorter == SeqsUpTo(S, n - 1) IN
         shorter \cup {Append(q, x) : q \in shorter, x \in S}

\* the fields of the schema that hold no nested object
LeafPaths == {p \in RequiredPaths : ~\E q \in RequiredPaths : Len(q) > Len(p) /\ SubSeq(q, 1, Len(p)) = p}

\* parsed replies with two defects: one key removed and an empty string in
\* the place of another value
TwoDefectSamples ==
    {ReplaceAt(RemoveAt(ValidData, pq[1]), pq[2], JStr(<<>>)) :
        pq \in {x \in LeafPaths \X LeafPaths : x[1] # x[2]}}

RawTexts ==
    {Raw(isStr, segs) :
        isStr \in BOOLEAN,
        segs \in SeqsUpTo(SegmentSamples, MaxSegs)
                 \cup {<<JsonText(v)>> : v \in DataSamples \cup TwoDefectSamples}}

InitValidator ==
    /\ db = {}
    /\ now = 1
    /\ inflight = EmptyBag
    /\ resp = NoResponse
    /\ delta = NoDelta
    /\ raw_text \in RawTexts
    /\ validated = NoData
    /\ vpc = "input"
    /\ det_file = FPng
    /\ det_change = <<>>
    /\ dpc = "off"

ValidatorStep ==
    /\ vpc = "input"
    /\ validated' = validate_response(raw_text)
    /\ vpc' = "validated"
    /\ UNCHANGED <<raw_text, handler_vars, detector_vars>>

NextValidator == ValidatorStep

SpecValidator == InitValidator /\ [][NextValidator]_vars

(***************************************************************************)
(* The detector on its own: every file of a bounded set of names and       *)
(* patches goes through the adapter's loop over commit.files.              *)
(***************************************************************************)
\* pieces of patch text joined into one patch
MaxPieces == 2

FileNames ==
    { <<"app/src/main", "/", "Notifier", ".java">>,
      <<"lib", "/Android/", "Push", ".java">>,
      <<"app/src/main", "/", "Notifier", ".kt">>,
      <<"app/src/main", "/", "Notifier", ".java", ".orig">>,
      <<"App/Src/Main", "/", "Notifier", ".java">>,
      <<"core", "/", "Util", ".java">>,
      <<"res", "/", "layout", ".xml">> }

PatchPieces ==
    { <<"builder", ".setPublicVersion", "(", "pub", ")">>,
      <<".setPublicVersion", " ", "\n", "(", ")">>,
      <<".setPublicVersion", ";">>,
      <<".setContentSensitivity", "(", "1", ")">>,
      <<".setVisibility", "(", " ", "NotificationCompat.VISIBILITY_", "PRIVATE", ")">>,
      <<".setVisibility", "(", "View.GONE", ")">>,
      <<".setCategory", "(", "NotificationCompat.CATEGORY_", "CALL", ")">>,
      <<"layout_width">> }

RECURSIVE Join(_)
Join(pieces) == IF pieces = <<>> THEN <<>> ELSE Head(pieces) \o Join(Tail(pieces))

DetectorFiles ==
    { [filename |-> name, status |-> "modified", additions |-> 1, deletions |-> 0,
       changes |-> 1, patch |-> patch] :
        name \in FileNames,
        patch \in {NoPatch} \cup {Patch(Join(ps)) : ps \in SeqsUpTo(PatchPieces, MaxPieces)} }

InitDetector ==
    /\ db = {}
    /\ now = 1
    /\ inflight = EmptyBag
    /\ resp = NoResponse
    /\ delta = NoDelta
    /\ raw_text = Raw(TRUE, <<>>)
    /\ validated = NoData
    /\ vpc = "off"
    /\ det_file \in DetectorFiles
    /\ det_change = <<>>
    /\ dpc = "input"

DetectorStep ==
    /\ dpc = "input"
    /\ det_change' = changes_of(<<det_file>>)
    /\ dpc' = "detected"
    /\ UNCHANGED <<det_file, handler_vars, validator_vars>>

NextDetector == DetectorStep

SpecDetector == InitDetector /\ [][NextDetector]_vars

(***************************************************************************)
(* Properties.                                                             *)
(***************************************************************************)
\* sub occurs in s as a run of consecutive tokens
Contains(s, sub) ==
    \E i \in 0..(Len(s) - Len(sub)) : SubSeq(s, i + 1, i + Len(sub)) = sub

\* C1: a get-record-by-id request for an aid that no stored record has is
\* answered 404 (not found), never with a server error or a record.
C1_GetUnknownIdIsNotFound ==
    (resp.op = "get" /\ resp.aid \notin Aids) => resp.status = 404

\* the table before the last step
DbBefore == (db \ delta.added) \cup delta.lost
AidsBefore == {r.aid : r \in DbBefore}
RowBefore(aid) == CHOOSE r \in DbBefore : r.aid = aid

\* C2: a reanalyze request for an aid that no stored record has is answered
\* 404, leaves the table as it was, and issues no call to the diff source or
\* to the reasoning engine.
C2_ReanalyzeUnknownId ==
    (resp.op = "reanalyze" /\ resp.aid \notin AidsBefore)
        => (resp.status = 404 /\ delta = NoDelta /\ resp.ext = <<>>)

\* a reanalyze of an unknown aid was answered while the table held a record
C2_Witness ==
    /\ resp.op = "reanalyze"
    /\ resp.aid \notin Aids
    /\ resp.status = 404
    /\ db # {}

\* C3: every reanalyze of a known aid that is answered 200 adds exactly one
\* row, whose aid is new and differs from the aid asked for, whose
\* repository and commit hash are those of the row asked for, and whose
\* notes name the aid asked for; that row is the response's body.
C3_ReanalyzeAddsOneRecord ==
    (resp.op = "reanalyze" /\ resp.status = 200)
        => /\ resp.aid \in AidsBefore
           /\ delta.lost = {}
           /\ \E r \in delta.added :
                /\ delta.added = {r}
                /\ r.aid \notin AidsBefore
                /\ r.aid # resp.aid
                /\ r.repository = RowBefore(resp.aid).repository
                /\ r.commit_hash = RowBefore(resp.aid).commit_hash
                /\ ~r.notes.none
                /\ Contains(r.notes.text, <<ToString(resp.aid)>>)
                /\ resp.records = <<to_dict(r)>>

\* a re-analysis of a two-file commit succeeded
C3_Witness ==
    /\ resp.op = "reanalyze"
    /\ resp.status = 200
    /\ \E r \in db : r.aid = resp.aid /\ r.commit_hash = <<"c0de">>
    /\ Cardinality(db) = 2
    /\ \E r \in delta.added : r.notes = Text(<<"Re-analysis of ", ToString(resp.aid)>>)

\* C4: no step removes or changes a stored row, no two rows share an aid, and
\* a get of a stored aid returns that row: a record fetched by its aid
\* equals the record as it was created, whatever requests ran in between.
C4_RecordsNeverChange ==
    /\ delta.lost = {}
    /\ \A r1, r2 \in db : r1.aid = r2.aid => r1 = r2
    /\ (resp.op = "get" /\ resp.status = 200)
         => \E r \in db : r.aid = resp.aid /\ resp.records = <<to_dict(r)>>

\* a record was fetched after a re-analysis of it had been stored
C4_Witness ==
    /\ resp.op = "get"
    /\ resp.status = 200
    /\ \E r \in db : r.notes = Text(<<"Re-analysis of ", ToString(resp.aid)>>)
    /\ \E r \in db : r.aid = resp.aid /\ r.notes.none

\* C5: when the deadline ends a batch, the caller of analyze or reanalyze
\* is answered 504 with no report and no record in the body, and the table
\* is what it was, however many files already had a result.
C5_TimeoutLeavesNothing ==
    resp.exc = "TimeoutError"
        => /\ resp.op \in {"analyze", "reanalyze"}
           /\ resp.status = 504
           /\ resp.report = NoReport
           /\ resp.body_aid = 0
           /\ resp.records = <<>>
           /\ delta = NoDelta

\* a re-analysis timed out after its first file had produced a result
C5_Witness ==
    /\ resp.exc = "TimeoutError"
    /\ resp.op = "reanalyze"
    /\ resp.done = 1
    /\ db # {}

\* the files of a sequence that have a non-empty patch text, in order
PatchFiles(files) ==
    SelectSeq(files, LAMBDA f : ~f.patch.none /\ f.patch.text # <<>>)
Filenames(files) == [i \in DOMAIN files |-> files[i].filename]
IsFallbackEntry(entry) == "error" \in DOMAIN entry.analysis.d
FallbackCount(entries) ==
    Cardinality({i \in DOMAIN entries : IsFallbackEntry(entries[i])})

\* texts of the exceptions raised while one file is analysed
FileFailureTexts ==
    { <<"Connection error.">>,
      <<"Failed to parse analysis result as JSON">>,
      <<"Failed to parse analysis result as JSON: ">>,
      <<"Invalid response structure: ">> }

\* C6: a failed engine invocation or a failed validation for one file never
\* aborts the batch: no response reports a file's failure as the call's
\* failure; a suspended batch holds one result for every file analysed so
\* far and waits for a later file; a finished batch stores a report with one
\* entry per file with a patch, a fallback entry for each failed file, and
\* analyze answers 200 with that report.
C6_FileFailureNeverAborts ==
    /\ \A t \in FileFailureTexts : ~Contains(resp.detail, t)
    /\ \A c \in BagToSet(inflight) :
         /\ c.idx \in DOMAIN c.changes.files
         /\ Filenames(c.results) =
                Filenames(PatchFiles(SubSeq(c.changes.files, 1, c.idx - 1)))
         /\ FallbackCount(c.results) >= c.raised
    /\ (resp.op \in {"analyze", "reanalyze"} /\ resp.status = 200)
         => \E r \in delta.added :
              /\ Len(r.analysis_result.files) =
                     Len(PatchFiles(commit_files(r.commit_hash)))
              /\ FallbackCount(r.analysis_result.files) >= resp.raised
              /\ resp.op = "analyze" => resp.report = r.analysis_result

\* analyze stored and returned a report whose first file failed in the
\* engine and whose second file was analysed
C6_Witness ==
    /\ resp.op = "analyze"
    /\ resp.status = 200
    /\ resp.raised = 1
    /\ Len(resp.report.files) = 2
    /\ IsFallbackEntry(resp.report.files[1])
    /\ ~IsFallbackEntry(resp.report.files[2])
    /\ \E r \in db : r.aid = resp.body_aid /\ r.analysis_result = resp.report

ListPaths ==
    { <<"compatibility_analysis", "affected_versions", "target_versions">>,
      <<"compatibility_analysis", "affected_versions", "specific_apis">>,
      <<"compatibility_reasons">>,
      <<"security_implications">>,
      <<"ui_impact", "changes">>,
      <<"testing_recommendations">> }

\* the parsed reply is no object or misses a key of the schema at some level
LacksField(data) == \E p \in RequiredPaths : ~HasPath(data, p)

\* C7: for every engine reply that does not parse as JSON or lacks a
\* required field, the validator step returns a result in which
\* compatibility_testing_required and ui_impact.has_visual_changes are
\* false, every list field is empty, and error is a non-empty string that
\* contains the text of the failure.
C7_InvalidReplyGivesFallback ==
    (vpc = "validated" /\ (~parse_json(raw_text).ok \/ LacksField(parse_json(raw_text).data)))
        => /\ \A p \in RequiredPaths : HasPath(validated, p)
           /\ ValueAt(validated, <<"compatibility_testing_required">>) = JBool(FALSE)
           /\ ValueAt(validated, <<"ui_impact", "has_visual_changes">>) = JBool(FALSE)
           /\ \A p \in ListPaths : ValueAt(validated, p) = JList(<<>>)
           /\ "error" \in DOMAIN validated.d
           /\ validated.d["error"].t = "str"
           /\ Strip(validated.d["error"].s) # <<>>
           /\ Contains(validated.d["error"].s,
                       IF ~parse_json(raw_text).ok THEN parse_json(raw_text).err
                       ELSE validate_field(parse_json(raw_text).data, required_fields, <<>>))

\* a reply that is JSON but lacks ui_impact.reasoning was validated
C7_Witness ==
    /\ vpc = "validated"
    /\ raw_text = Raw(TRUE, <<JsonText(RemoveAt(ValidData, <<"ui_impact", "reasoning">>))>>)
    /\ Contains(validated.d["error"].s,
                <<"Missing required field: ", "ui_impact", ".", "reasoning">>)

\* C8: the file entries of every stored and every returned report are the
\* commit's changed files that have a non-empty patch text, one entry each,
\* in the order of the commit's file list.
C8_ReportFilesArePatchFiles ==
    /\ \A r \in db :
         LET entries == r.analysis_result.files
             expected == PatchFiles(commit_files(r.commit_hash))
         IN /\ Filenames(entries) = Filenames(expected)
            /\ \A i \in DOMAIN entries :
                 /\ entries[i].changes.filename = expected[i].filename
                 /\ entries[i].changes.patch = expected[i].patch
                 /\ Truthy(entries[i].changes.patch)
    /\ (resp.op = "analyze" /\ resp.status = 200)
         => Filenames(resp.report.files) =
                Filenames(PatchFiles(commit_files(resp.report.commit)))

\* a commit of four files, two of them without patch text, was analysed
C8_Witness ==
    /\ resp.op = "analyze"
    /\ resp.status = 200
    /\ Len(commit_files(resp.report.commit)) = 4
    /\ Filenames(resp.report.files) = <<FJava.filename, FXml.filename>>

\* the commit the url names exists upstream and has no file with a patch
NoAnalyzableFiles(url) ==
    LET parsed == parse_commit_url(url) IN
    /\ parsed.ok
    /\ parsed.owner \o <<"/">> \o parsed.repo = KnownRepo
    /\ parsed.commit_hash \in KnownCommits
    /\ PatchFiles(commit_files(parsed.commit_hash)) = <<>>

C10_FailedAnalyzeCreatesNoRecord ==
    resp.op = "analyze"
        => /\ (\/ ~parse_commit_url(resp.url).ok
               \/ resp.exc = "GitHubError"
               \/ (NoAnalyzableFiles(resp.url) /\ resp.ext = <<"get_repo", "get_commit">>)
               \/ resp.exc = "AnalysisError")
                => (resp.status \in {400, 503} /\ delta = NoDelta /\ resp.body_aid = 0)
           /\ resp.status # 200 => delta = NoDelta

\* analyze was refused for a commit without patch content while the table
\* held a record
C10_Witness ==
    /\ resp.op = "analyze"
    /\ NoAnalyzableFiles(resp.url)
    /\ resp.status = 400
    /\ resp.detail = <<"No files found in commit">>
    /\ db # {}

\* C11: under every interleaving of analyze and reanalyze calls, calls for
\* the same commit included, each call answered 200 adds exactly one row of
\* its own with an aid no row had, no other step adds a row, all aids are
\* pairwise distinct, the number of rows is the number of calls answered 200
\* (the store's clock ticks once per commit), and the row a call adds is
\* the one its response names, whatever calls are suspended beside it.
C11_IndependentRecords ==
    /\ \A r1, r2 \in db : r1.aid = r2.aid => r1 = r2
    /\ Cardinality(db) = now - 1
    /\ IF resp.op \in {"analyze", "reanalyze"} /\ resp.status = 200
       THEN /\ delta.lost = {}
            /\ \E r \in delta.added : delta.added = {r} /\ r.aid \notin AidsBefore
       ELSE delta = NoDelta
    /\ (resp.op = "analyze" /\ resp.status = 200)
         => \E r \in delta.added :
              /\ r.aid = resp.body_aid
              /\ r.commit_hash = parse_commit_url(resp.url).commit_hash
    /\ (resp.op = "reanalyze" /\ resp.status = 200)
         => \E r \in delta.added : resp.records = <<to_dict(r)>>

\* an analyze call was answered 200 with its own row while another analyze
\* call for the same commit was still suspended
C11_Witness ==
    /\ resp.op = "analyze"
    /\ resp.status = 200
    /\ \E r \in delta.added : r.aid = resp.body_aid
    /\ \E c \in BagToSet(inflight) : c.op = "analyze" /\ c.url = resp.url

\* C12: analyze answered 200 returns the report with a record id, and that
\* id is the aid of the row just stored, whose repository, commit hash and
\* report are the ones returned; a get answered 200 returns, under the aid
\* asked for, the repository, commit hash and report of the stored row, and
\* every stored row keeps the report of its own commit.
C12_ReturnedIdFindsRecord ==
    /\ (resp.op = "analyze" /\ resp.status = 200)
         => /\ resp.body_aid \in Aids
            /\ resp.report.files # <<>>
            /\ \E r \in delta.added :
                 /\ r.aid = resp.body_aid
                 /\ r.repository = resp.report.repository
                 /\ r.commit_hash = resp.report.commit
                 /\ r.analysis_result = resp.report
    /\ \A r \in db :
         /\ r.analysis_result.repository = r.repository
         /\ r.analysis_result.commit = r.commit_hash
    /\ (resp.op = "get" /\ resp.status = 200)
         => /\ Len(resp.records) = 1
            /\ \E r \in db :
                 /\ r.aid = resp.aid
                 /\ resp.records[1].aid = r.aid
                 /\ resp.records[1].repository = r.repository
                 /\ resp.records[1].commit = r.commit_hash
                 /\ resp.records[1].analysisResult = r.analysis_result

\* a get of the aid an analyze call returned found the two-entry report of
\* that call's commit
C12_Witness ==
    /\ resp.op = "get"
    /\ resp.status = 200
    /\ resp.records[1].notes = None
    /\ resp.records[1].commit = <<"c0de">>
    /\ Len(resp.records[1].analysisResult.files) = 2

\* a name that ends in .java and has /android/ (in any case) or app/src/main
\* in its path
PlatformRelevant(name) ==
    /\ name[Len(name)] = ".java"
    /\ \E i \in DOMAIN name : name[i] \in {"/android/", "/Android/", "app/src/main"}

\* one call per configured rule, in the order of the rule table
RuleCalls ==
    << <<".setPublicVersion", "(">>,
       <<".setContentSensitivity", "(">>,
       <<".setVisibility", "(", " ", "NotificationCompat.VISIBILITY_">>,
       <<".setCategory", "(", "NotificationCompat.CATEGORY_">> >>

RuleSignals ==
    << "Android 15 - Screen sharing protection",
       "Android 15 - Content sensitivity",
       "Notification visibility",
       "Notification category" >>

\* C13: for a platform-relevant file whose patch holds a call of a
\* configured rule the detected-signal list is non-empty and holds that
\* rule's signal, once however often the call occurs; for a file that is not
\* platform-relevant the list is empty whatever the patch holds.
C13_DetectedSignals ==
    (dpc = "detected" /\ det_change # <<>>)
        => LET signals == det_change[1].android_api_changes IN
           /\ ~PlatformRelevant(det_file.filename) => signals = <<>>
           /\ PlatformRelevant(det_file.filename) =>
                \A i \in DOMAIN RuleCalls :
                    Contains(det_file.patch.text, RuleCalls[i])
                        => \E k \in DOMAIN signals : signals[k].description = RuleSignals[i]
           /\ \A j, k \in DOMAIN signals :
                signals[j].description = signals[k].description => j = k

\* a platform-relevant file calling setPublicVersion twice got that signal
\* once
C13_Witness ==
    /\ dpc = "detected"
    /\ det_file.filename = <<"lib", "/Android/", "Push", ".java">>
    /\ det_file.patch = Patch(<<"builder", ".setPublicVersion", "(", "pub", ")",
                                ".setPublicVersion", " ", "\n", "(", ")">>)
    /\ Len(det_change) = 1
    /\ Len(det_change[1].android_api_changes) = 1
    /\ det_change[1].android_api_changes[1].description = RuleSignals[1]

\* C14: a commit URL that does not parse is rejected before any network
\* call: the adapter raises its invalid-format error with no upstream call
\* issued, whatever the upstream would have answered, and the analyze
\* request that carried the URL is refused with that error and no call made.
C14_MalformedUrlNoNetworkCall ==
    /\ \A url \in Urls, up \in UpstreamOutcomes :
         ~parse_commit_url(url).ok
            => /\ get_commit_changes(url, up).ext = <<>>
               /\ get_commit_changes(url, up).cls = "GitHubError"
    /\ (resp.op = "analyze" /\ ~parse_commit_url(resp.url).ok)
         => /\ resp.ext = <<>>
            /\ resp.exc = "GitHubError"
            /\ Contains(resp.detail, <<"Invalid GitHub commit URL format">>)
            /\ delta = NoDelta

\* an analyze request for a pull-request URL was refused without a call
C14_Witness ==
    /\ resp.op = "analyze"
    /\ resp.url = <<Host, "octo", "/", "app", "/", "pull", "/", "abc1">>
    /\ resp.status = 400
    /\ resp.ext = <<>>

\* the reply is one schema-valid JSON object with other text around it
EmbeddedValid(raw) ==
    /\ Len(raw.segs) >= 2
    /\ \E i \in DOMAIN raw.segs :
         /\ raw.segs[i] = JsonText(ValidData)
         /\ \A j \in DOMAIN raw.segs : j # i => raw.segs[j] = Prose

\* C15: when the engine's reply does not parse as JSON as it is, the
\* validator parses the {...} span inside it: a reply that is one
\* schema-valid JSON object surrounded by other text yields that object's
\* analysis, not a fallback result.
C15_EmbeddedObjectIsExtracted ==
    (vpc = "validated" /\ EmbeddedValid(raw_text)) => validated = ValidData

\* the reply passed parsing and the schema walk
PassedValidation(raw) ==
    /\ parse_json(raw).ok
    /\ validate_field(parse_json(raw).data, required_fields, <<>>) = <<>>

\* C16: a result carries an error field if and only if it is a fallback
\* result: a result that came from a reply which passed parsing and the
\* schema walk never has an error field.
C16_ErrorOnlyOnFallback ==
    vpc = "validated"
        => (("error" \in DOMAIN validated.d) <=> ~PassedValidation(raw_text))

\* url is, as a whole, the host, an owner, a repository, "commit" and the
\* hash of the reference parsed from it
WholeCommitUrl(url) ==
    LET parsed == parse_commit_url(url) IN
    /\ parsed.ok
    /\ url = <<Host>> \o parsed.owner \o <<"/">> \o parsed.repo
                 \o <<"/", "commit", "/">> \o parsed.commit_hash

\* C17: only a URL that as a whole has the form
\* https://github.com/<owner>/<repo>/commit/<hex hash> yields a reference:
\* every analyze request whose fetch went on to the upstream carried such a
\* URL, and a URL that goes on after the hash is a parse failure.
C17_WholeUrlOnly ==
    (resp.op = "analyze" /\ resp.ext # <<>>) => WholeCommitUrl(resp.url)

\* the fields of the schema in the order the walk visits them, with the
\* Python type each must have
SchemaOrder ==
    << [path |-> <<"compatibility_testing_required">>, kind |-> "bool"],
       [path |-> <<"compatibility_analysis">>, kind |-> "dict"],
       [path |-> <<"compatibility_analysis", "reasoning">>, kind |-> "str"],
       [path |-> <<"compatibility_analysis", "affected_versions">>, kind |-> "dict"],
       [path |-> <<"compatibility_analysis", "affected_versions", "min_version">>, kind |-> "str"],
       [path |-> <<"compatibility_analysis", "affected_versions", "target_versions">>, kind |-> "list"],
       [path |-> <<"compatibility_analysis", "affected_versions", "specific_apis">>, kind |-> "list"],
       [path |-> <<"compatibility_reasons">>, kind |-> "list"],
       [path |-> <<"security_implications">>, kind |-> "list"],
       [path |-> <<"ui_impact">>, kind |-> "dict"],
       [path |-> <<"ui_impact", "has_visual_changes">>, kind |-> "bool"],
       [path |-> <<"ui_impact", "reasoning">>, kind |-> "str"],
       [path |-> <<"ui_impact", "changes">>, kind |-> "list"],
       [path |-> <<"testing_recommendations">>, kind |-> "list"] >>

\* the field is missing, of another type, or a string empty after trimming
Offends(data, field) ==
    \/ ~HasPath(data, field.path)
    \/ ValueAt(data, field.path).t # field.kind
    \/ field.kind = "str" /\ Strip(ValueAt(data, field.path).s) = <<>>

\* the path as the messages spell it: keys joined by "."
RECURSIVE Dotted(_)
Dotted(path) ==
    IF Len(path) = 1 THEN path ELSE <<Head(path), ".">> \o Dotted(Tail(path))

\* the message e is about exactly the field at path
NamesPath(e, path) ==
    /\ e # <<>>
    /\ e[1] \in {"Missing required field: ", "Invalid type for ",
                 "Expected dict at ", "Empty string not allowed for "}
    /\ Len(e) >= 1 + Len(Dotted(path))
    /\ SubSeq(e, 2, 1 + Len(Dotted(path))) = Dotted(path)
    /\ Len(e) > 1 + Len(Dotted(path))
         => e[2 + Len(Dotted(path))] \in {", got ", ": expected "}

\* C18: the schema walk accepts a parsed reply exactly when it is an object
\* in which every field of the schema is present at its level with its
\* type, the three string fields non-empty after trimming (lists may be
\* empty); otherwise it fails with a message about the first offending
\* field in schema order.
C18_SchemaWalk ==
    (vpc = "validated" /\ parse_json(raw_text).ok)
        => LET data == parse_json(raw_text).data
               bad == {i \in DOMAIN SchemaOrder : Offends(data, SchemaOrder[i])}
           IN IF data.t = "dict" /\ bad = {}
              THEN validated = data
              ELSE /\ "error" \in DOMAIN validated.d
                   /\ SubSeq(validated.d["error"].s, 1, 2) =
                          <<"Analysis failed: ", "Invalid response structure: ">>
                   /\ LET e == Drop(validated.d["error"].s, 2) IN
                      IF data.t # "dict"
                      THEN e[1] = "Expected dict at " /\ e[2] = ", got "
                      ELSE NamesPath(e, SchemaOrder[
                               CHOOSE i \in bad : \A j \in bad : i <= j].path)

\* a reply with an empty compatibility_analysis.reasoning and no
\* ui_impact.changes failed on the earlier field of the two
C18_Witness ==
    /\ vpc = "validated"
    /\ raw_text = Raw(TRUE, <<JsonText(
           ReplaceAt(RemoveAt(ValidData, <<"ui_impact", "changes">>),
                     <<"compatibility_analysis", "reasoning">>, JStr(<<>>)))>>)
    /\ Contains(validated.d["error"].s,
                <<"Empty string not allowed for ", "compatibility_analysis", ".", "reasoning">>)

\* the engine invocations among the external calls ext
Invocations(ext) == Cardinality({i \in DOMAIN ext : ext[i] = "ainvoke"})

\* C19: within a batch the engine invocations are sequential and never
\* repeated: a suspended batch has exactly one invocation outstanding, for
\* the patch file that follows the files whose results are appended, and has
\* invoked the engine once for each of those; a finished batch has invoked
\* the engine exactly once per patch file of the commit, whether the
\* invocations succeeded or raised.
C19_SequentialInvocations ==
    /\ \A c \in BagToSet(inflight) :
         LET patched == PatchFiles(c.changes.files) IN
         /\ Invocations(c.ext) = Len(c.results) + 1
         /\ c.ext[Len(c.ext)] = "ainvoke"
         /\ Len(c.results) < Len(patched)
         /\ c.changes.files[c.idx] = patched[Len(c.results) + 1]
         /\ Filenames(c.results) = Filenames(SubSeq(patched, 1, Len(c.results)))
         /\ c.raised <= Len(c.results)
    /\ (resp.op \in {"analyze", "reanalyze"} /\ resp.status = 200)
         => \E r \in delta.added :
              /\ Invocations(resp.ext) = Len(PatchFiles(commit_files(r.commit_hash)))
              /\ Invocations(resp.ext) = resp.done
              /\ resp.raised <= resp.done
    /\ resp.exc \in {"TimeoutError", "AnalysisError"}
         => Invocations(resp.ext) = resp.done + 1
    /\ resp.exc \in {"GitHubError", "HTTPException"} => Invocations(resp.ext) = 0

\* a batch whose first invocation raised holds that file's result and waits
\* for its second invocation
C19_Witness ==
    \E c \in BagToSet(inflight) :
        /\ c.raised = 1
        /\ Len(c.results) = 1
        /\ Invocations(c.ext) = 2

\* the result passes the walk over required_fields
SchemaValid(analysis) == validate_field(analysis, required_fields, <<>>) = <<>>

\* C20: every result placed in a report passes the schema walk, whether it
\* is validated engine output or a fallback: the entries of every stored
\* and returned report and of every batch under way pass it, and so does
\* the fallback built for each failure text, the empty one included.
C20_ReportEntriesSchemaValid ==
    /\ \A r \in db : \A i \in DOMAIN r.analysis_result.files :
         SchemaValid(r.analysis_result.files[i].analysis)
    /\ \A i \in DOMAIN resp.report.files : SchemaValid(resp.report.files[i].analysis)
    /\ \A c \in BagToSet(inflight) : \A i \in DOMAIN c.results :
         SchemaValid(c.results[i].analysis)
    /\ \A t \in FileFailureTexts \cup {<<>>} : SchemaValid(fallback_data(t))

\* a stored report holds a fallback entry for a file whose invocation
\* raised, next to an entry of validated engine output
C20_Witness ==
    \E r \in db : \E i, j \in DOMAIN r.analysis_result.files :
        /\ IsFallbackEntry(r.analysis_result.files[i])
        /\ Contains(r.analysis_result.files[i].analysis.d["error"].s, <<"Connection error.">>)
        /\ r.analysis_result.files[j].analysis = ValidData

====
